---- MODULE Spec2Model ----
(***************************************************************************)
(* A model of the Library System: the item classes (libraryItem.py,        *)
(* book.py, dvd.py, magazine.py) and the LibrarySystem store of main.py    *)
(* with its JSON data file.                                                *)
(*                                                                         *)
(* Python values are modelled as records [k, s, n]: k is the kind of the   *)
(* value, s the characters of a str, n the number of an int or bool, or    *)
(* the packed (year, month, day) of a datetime.date.  A str is a sequence  *)
(* of one-character strings, so that formatting and parsing are real       *)
(* conversions.  The one list the model uses is the empty list.            *)
(***************************************************************************)
EXTENDS Integers, Sequences, FiniteSets, TLC

VARIABLES
    file,    \* the data file: absent, malformed text, or a JSON array of records
    items,   \* LibrarySystem._items of the current instance
    phase,   \* "new": not constructed, "ready": constructed, "raised": __init__ raised,
             \* "menu": in the menu loop of main, "exited": main has returned
    last,    \* the call made by the last step, with what it returned
    prev,    \* the id the call before the last one borrowed, None if it borrowed nothing
    origin,  \* who wrote the file's content last: "foreign" or "saved" (_save_data)
    result,  \* the list the call of the last step returned or displayed, else empty
    other,   \* a second LibrarySystem instance on the same data file: its _items and phase
    writers, \* the calls that saved the file when two instances share it, oldest first
    seeded   \* TRUE when populate_with_initial_data has run on this data file

vars == <<file, items, phase, last, prev, origin, result, other, writers, seeded>>

\* The largest number of records of a data file the program is started on.
MaxFile == 2

\* The largest catalog populate_with_initial_data is called on.
MaxSeedOn == 2

\* The largest number of saves of two instances that share a data file.
MaxSaves == 2

-----------------------------------------------------------------------------
(* Python values *)

PyStr(chars) == [k |-> "str", s |-> chars, n |-> 0]
PyInt(i) == [k |-> "int", s |-> <<>>, n |-> i]
PyBool(b) == [k |-> "bool", s |-> <<>>, n |-> IF b THEN 1 ELSE 0]
PyNone == [k |-> "none", s |-> <<>>, n |-> 0]
PyEmptyList == [k |-> "list", s |-> <<>>, n |-> 0]
PyDate(y, m, d) == [k |-> "date", s |-> <<>>, n |-> (y * 10000) + (m * 100) + d]

PyTrue == PyBool(TRUE)
PyFalse == PyBool(FALSE)

Year(v) == v.n \div 10000
Month(v) == (v.n \div 100) % 100
Day(v) == v.n % 100

\* bool(v): the truth value Python gives v in `if v` and `not v`.
Truthy(v) ==
    CASE v.k = "bool" -> v.n = 1
      [] v.k = "int" -> v.n # 0
      [] v.k = "str" -> v.s # <<>>
      [] v.k = "none" -> FALSE
      [] v.k = "list" -> FALSE
      [] OTHER -> TRUE

\* hash(v) raises TypeError for a list.
Hashable(v) == v.k # "list"

\* a == b on Python values (True == 1 and False == 0 hold in Python).
PyEq(a, b) ==
    CASE a.k \in {"int", "bool"} /\ b.k \in {"int", "bool"} -> a.n = b.n
      [] OTHER -> a = b

-----------------------------------------------------------------------------
(* datetime.date: isoformat and fromisoformat *)

Digits == <<"0", "1", "2", "3", "4", "5", "6", "7", "8", "9">>

DigitChar(i) == Digits[i + 1]

IsDigit(c) == \E i \in 1..10 : Digits[i] = c

DigitValue(c) == (CHOOSE i \in 1..10 : Digits[i] = c) - 1

IsLeap(y) == (y % 4 = 0) /\ ((y % 100 # 0) \/ (y % 400 = 0))

DaysInMonth(y, m) ==
    CASE m \in {1, 3, 5, 7, 8, 10, 12} -> 31
      [] m \in {4, 6, 9, 11} -> 30
      [] OTHER -> IF IsLeap(y) THEN 29 ELSE 28

\* isoformat with "%d-%d-%d": no zero padding.
IsoFormatUnpadded(v) ==
    PyStr((IF Year(v) >= 1000 THEN <<DigitChar((Year(v) \div 1000) % 10)>> ELSE <<>>)
          \o (IF Year(v) >= 100 THEN <<DigitChar((Year(v) \div 100) % 10)>> ELSE <<>>)
          \o (IF Year(v) >= 10 THEN <<DigitChar((Year(v) \div 10) % 10)>> ELSE <<>>)
          \o <<DigitChar(Year(v) % 10), "-">>
          \o (IF Month(v) >= 10 THEN <<DigitChar(Month(v) \div 10)>> ELSE <<>>)
          \o <<DigitChar(Month(v) % 10), "-">>
          \o (IF Day(v) >= 10 THEN <<DigitChar(Day(v) \div 10)>> ELSE <<>>)
          \o <<DigitChar(Day(v) % 10)>>)

\* date.isoformat(): "%04d-%02d-%02d".
IsoFormat(v) ==
    PyStr(<< DigitChar((Year(v) \div 1000) % 10), DigitChar((Year(v) \div 100) % 10),
           DigitChar((Year(v) \div 10) % 10), DigitChar(Year(v) % 10), "-",
           DigitChar(Month(v) \div 10), DigitChar(Month(v) % 10), "-",
           DigitChar(Day(v) \div 10), DigitChar(Day(v) % 10) >>)

IsoShape(c) ==
    /\ Len(c) = 10
    /\ c[5] = "-"
    /\ c[8] = "-"
    /\ \A i \in {1, 2, 3, 4, 6, 7, 9, 10} : IsDigit(c[i])

IsoYear(c) ==
    (DigitValue(c[1]) * 1000) + (DigitValue(c[2]) * 100) + (DigitValue(c[3]) * 10)
        + DigitValue(c[4])
IsoMonth(c) == (DigitValue(c[6]) * 10) + DigitValue(c[7])
IsoDay(c) == (DigitValue(c[9]) * 10) + DigitValue(c[10])

\* date.fromisoformat(v): what it raises, "" when it returns a date.
\* A value that is no str is a TypeError, text that is no date a ValueError.
FromIsoError(v) ==
    IF v.k # "str" THEN "TypeError"
    ELSE IF ~IsoShape(v.s) THEN "ValueError"
    ELSE IF /\ IsoYear(v.s) >= 1
            /\ IsoMonth(v.s) \in 1..12
            /\ IsoDay(v.s) \in 1..DaysInMonth(IsoYear(v.s), IsoMonth(v.s))
         THEN ""
         ELSE "ValueError"

FromIsoFormat(v) == PyDate(IsoYear(v.s), IsoMonth(v.s), IsoDay(v.s))

-----------------------------------------------------------------------------
(* The item classes.  An item is a record: cls is its class, the other     *)
(* fields are its __dict__.                                                *)

Book(title, author, itemId, numPages, genre, available) ==
    [cls |-> "Book", title |-> title, author |-> author, itemId |-> itemId,
     available |-> available, numPages |-> numPages, genre |-> genre]

\* DVD.__init__ hands `director` to LibraryItem.__init__ as the author; its own
\* `author` parameter is not used.
DVD(title, director, duration, itemId, author, available) ==
    [cls |-> "DVD", title |-> title, author |-> director, itemId |-> itemId,
     available |-> available, director |-> director, duration |-> duration]

Magazine(title, issueNumber, publicationDate, itemId, author, available) ==
    [cls |-> "Magazine", title |-> title, author |-> author, itemId |-> itemId,
     available |-> available, issueNumber |-> issueNumber,
     publicationDate |-> publicationDate]

\* The parameters of each __init__ (without self), and those with no default.
Params(cls) ==
    CASE cls = "Book" -> {"title", "author", "itemId", "numPages", "genre", "available"}
      [] cls = "DVD" -> {"title", "director", "duration", "itemId", "author", "available"}
      [] cls = "Magazine" ->
            {"title", "issueNumber", "publicationDate", "itemId", "author", "available"}

Required(cls) ==
    CASE cls = "Book" -> {"title", "author", "itemId", "numPages", "genre"}
      [] cls = "DVD" -> {"title", "director", "duration", "itemId"}
      [] cls = "Magazine" -> {"title", "issueNumber", "publicationDate", "itemId"}

\* d.get(key, default)
Get(d, key, default) == IF key \in DOMAIN d THEN d[key] ELSE default

\* cls(**data) raises TypeError on an unexpected keyword and on a missing
\* argument that has no default.
CallRaises(cls, data) ==
    ~((DOMAIN data \subseteq Params(cls)) /\ (Required(cls) \subseteq DOMAIN data))

\* cls(**data), for data that CallRaises accepts.
Call(cls, data) ==
    CASE cls = "Book" ->
            Book(data.title, data.author, data.itemId, data.numPages, data.genre,
                 Get(data, "available", PyTrue))
      [] cls = "DVD" ->
            DVD(data.title, data.director, data.duration, data.itemId,
                Get(data, "author", PyStr(<<>>)), Get(data, "available", PyTrue))
      [] cls = "Magazine" ->
            Magazine(data.title, data.issueNumber, data.publicationDate, data.itemId,
                     Get(data, "author", PyStr(<<>>)), Get(data, "available", PyTrue))

is_available(item) == item.available

\* borrow_item without the check of is_available.
ItemBorrowUnchecked(item) == [item |-> [item EXCEPT !.available = PyFalse], ret |-> TRUE]

\* LibraryItem.borrow_item: the item afterwards, and what the method returns.
ItemBorrow(item) ==
    IF ~Truthy(is_available(item))
    THEN [item |-> item, ret |-> FALSE]
    ELSE [item |-> [item EXCEPT !.available = PyFalse], ret |-> TRUE]

\* return_item that flips the flag instead of setting it.
ItemReturnToggle(item) == [item EXCEPT !.available = PyBool(~Truthy(item.available))]

\* LibraryItem.return_item
ItemReturn(item) == [item EXCEPT !.available = PyTrue]

\* type(item).__name__
TypeName(cls) ==
    CASE cls = "Book" -> PyStr(<<"B", "o", "o", "k">>)
      [] cls = "DVD" -> PyStr(<<"D", "V", "D">>)
      [] cls = "Magazine" -> PyStr(<<"M", "a", "g", "a", "z", "i", "n", "e">>)

-----------------------------------------------------------------------------
(* The data file.  A JSON object is [obj |-> TRUE, d |-> its members], any  *)
(* other JSON value [obj |-> FALSE, d |-> [value |-> it]].                  *)

JObject(d) == [obj |-> TRUE, d |-> d]
JScalar(v) == [obj |-> FALSE, d |-> [value |-> v]]

Absent == [state |-> "absent", records |-> <<>>]
Malformed == [state |-> "malformed", records |-> <<>>]
JNumber == [state |-> "number", records |-> <<>>]
JArray(records) == [state |-> "array", records |-> records]

\* d without key
Pop(d, key) == [f \in (DOMAIN d) \ {key} |-> d[f]]

\* A loader that never finds an id among the loaded ones.
InLoadedNever(item_id, loaded_ids) == FALSE

\* `item_id in loaded_ids`
InLoaded(item_id, loaded_ids) == \E x \in loaded_ids : PyEq(x, item_id)

\* The class the loader builds for a type name, "" for an unknown one.
ClassOfType(item_type) ==
    CASE PyEq(item_type, TypeName("Book")) -> "Book"
      [] PyEq(item_type, TypeName("Magazine")) -> "Magazine"
      [] PyEq(item_type, TypeName("DVD")) -> "DVD"
      [] OTHER -> ""

\* The exceptions the try block inside the loop of _load_data catches.
CaughtPerRecord == {"TypeError", "KeyError"}

Skip(why) == [res |-> "skip", why |-> why]
Raise(exc) == [res |-> "raise", why |-> exc]
Loaded(item, item_id) == [res |-> "loaded", why |-> "", item |-> item, id |-> item_id]

\* An exception of the try block: caught (the record is skipped) or not.
Except(exc) == IF exc \in CaughtPerRecord THEN Skip(exc) ELSE Raise(exc)

\* The try block of one turn of the loop, for a record with a type.
BuildRecord(cls, data, item_id) ==
    CASE cls = "" -> Skip("unknown type")
      [] cls = "Magazine" ->
            IF "publicationDate" \notin DOMAIN data THEN Except("KeyError")
            ELSE IF FromIsoError(data.publicationDate) # ""
                 THEN Except(FromIsoError(data.publicationDate))
            ELSE LET dated == [data EXCEPT
                                  !.publicationDate = FromIsoFormat(data.publicationDate)]
                 IN  IF CallRaises(cls, dated) THEN Except("TypeError")
                     ELSE Loaded(Call(cls, dated), item_id)
      [] OTHER ->
            IF CallRaises(cls, data) THEN Except("TypeError")
            ELSE Loaded(Call(cls, data), item_id)

\* One turn of the loop of _load_data.  What data.get and the test of
\* loaded_ids raise is raised outside the try block.
LoadRecord(rec, loaded_ids) ==
    IF ~rec.obj THEN Raise("AttributeError")
    ELSE LET item_id == Get(rec.d, "itemId", PyNone)
             item_type == Get(rec.d, "type", PyNone)
         IN  IF ~Hashable(item_id) THEN Raise("TypeError")
             ELSE IF InLoaded(item_id, loaded_ids) THEN Skip("duplicate")
             ELSE IF ~Truthy(item_type) THEN Skip("no type")
             ELSE BuildRecord(ClassOfType(item_type), Pop(rec.d, "type"), item_id)

RECURSIVE LoadLoop(_, _, _, _)
LoadLoop(records, i, its, loaded_ids) ==
    IF i > Len(records) THEN [items |-> its, raised |-> ""]
    ELSE LET out == LoadRecord(records[i], loaded_ids)
         IN  CASE out.res = "raise" -> [items |-> its, raised |-> out.why]
               [] out.res = "skip" -> LoadLoop(records, i + 1, its, loaded_ids)
               [] OTHER -> LoadLoop(records, i + 1, Append(its, out.item),
                                    loaded_ids \cup {out.id})

\* _load_data with no except clause for a missing or malformed file.
LoadDataUncaught(f) ==
    CASE f.state = "absent" -> [items |-> <<>>, raised |-> "FileNotFoundError"]
      [] f.state = "malformed" -> [items |-> <<>>, raised |-> "JSONDecodeError"]
      [] f.state = "number" -> [items |-> <<>>, raised |-> "TypeError"]
      [] OTHER -> LoadLoop(f.records, 1, <<>>, {})

\* _load_data on a fresh instance: the items it leaves in _items and the
\* exception it lets through ("" for none).  A document that is a number
\* cannot be iterated, and no except clause names TypeError.
LoadData(f) ==
    CASE f.state = "absent" -> [items |-> <<>>, raised |-> ""]
      [] f.state = "malformed" -> [items |-> <<>>, raised |-> ""]
      [] f.state = "number" -> [items |-> <<>>, raised |-> "TypeError"]
      [] OTHER -> LoadLoop(f.records, 1, <<>>, {})

\* The dict _save_data writes for one item.
ItemData(item) ==
    [f \in ((DOMAIN item) \ {"cls"}) \cup {"type"} |->
        IF f = "type" THEN TypeName(item.cls)
        ELSE IF item.cls = "Magazine" /\ f = "publicationDate" THEN IsoFormat(item[f])
        ELSE item[f]]

\* _save_data that writes the available items only.
SaveDataAvailable(its) ==
    LET kept == SelectSeq(its, LAMBDA item : item.available = PyTrue)
    IN  JArray([i \in 1..Len(kept) |-> JObject(ItemData(kept[i]))])

\* The content of the data file after _save_data.
SaveData(its) == JArray([i \in 1..Len(its) |-> JObject(ItemData(its[i]))])

\* _find_item_by_id: the index of the first item with this id, 0 for None.
FindIndex(its, item_id) ==
    IF \E i \in 1..Len(its) : PyEq(its[i].itemId, item_id)
    THEN CHOOSE i \in 1..Len(its) :
            /\ PyEq(its[i].itemId, item_id)
            /\ \A j \in 1..(i - 1) : ~PyEq(its[j].itemId, item_id)
    ELSE 0

-----------------------------------------------------------------------------
(* The str values the model uses. *)

B001 == PyStr(<<"B", "0", "0", "1">>)
B002 == PyStr(<<"B", "0", "0", "2">>)
B003 == PyStr(<<"B", "0", "0", "3">>)
B004 == PyStr(<<"B", "0", "0", "4">>)
B005 == PyStr(<<"B", "0", "0", "5">>)
D001 == PyStr(<<"D", "0", "0", "1">>)
D002 == PyStr(<<"D", "0", "0", "2">>)
D003 == PyStr(<<"D", "0", "0", "3">>)
M001 == PyStr(<<"M", "0", "0", "1">>)
M002 == PyStr(<<"M", "0", "0", "2">>)
M003 == PyStr(<<"M", "0", "0", "3">>)
X1 == PyStr(<<"X", "1">>)
Q0 == PyStr(<<"Q", "0">>)
TheHobbit == PyStr(<<"T", "h", "e", " ", "H", "o", "b", "b", "i", "t">>)
Tolkien == PyStr(<<"J", ".", "R", ".", "R", ".", " ", "T", "o", "l", "k", "i", "e", "n">>)
Fantasy == PyStr(<<"F", "a", "n", "t", "a", "s", "y">>)
T1984 == PyStr(<<"1", "9", "8", "4">>)
Orwell == PyStr(<<"G", "e", "o", "r", "g", "e", " ", "O", "r", "w", "e", "l", "l">>)
Dystopian == PyStr(<<"D", "y", "s", "t", "o", "p", "i", "a", "n">>)
Dune == PyStr(<<"D", "u", "n", "e">>)
Herbert == PyStr(<<"F", "r", "a", "n", "k", " ", "H", "e", "r", "b", "e", "r", "t">>)
ScienceFiction == PyStr(<<"S", "c", "i", "e", "n", "c", "e", " ", "F", "i", "c", "t", "i", "o", "n">>)
Foundation == PyStr(<<"F", "o", "u", "n", "d", "a", "t", "i", "o", "n">>)
Asimov == PyStr(<<"I", "s", "a", "a", "c", " ", "A", "s", "i", "m", "o", "v">>)
BraveNewWorld == PyStr(<<"B", "r", "a", "v", "e", " ", "N", "e", "w", " ", "W", "o", "r", "l", "d">>)
Huxley == PyStr(<<"A", "l", "d", "o", "u", "s", " ", "H", "u", "x", "l", "e", "y">>)
TheMatrix == PyStr(<<"T", "h", "e", " ", "M", "a", "t", "r", "i", "x">>)
Wachowskis == PyStr(<<"W", "a", "c", "h", "o", "w", "s", "k", "i", "s">>)
Inception == PyStr(<<"I", "n", "c", "e", "p", "t", "i", "o", "n">>)
Nolan == PyStr(<<"C", "h", "r", "i", "s", "t", "o", "p", "h", "e", "r", " ", "N", "o", "l", "a", "n">>)
LordOfTheRings == PyStr(<<"T", "h", "e", " ", "L", "o", "r", "d", " ", "o", "f", " ", "t", "h", "e", " ", "R", "i", "n", "g", "s">>)
Jackson == PyStr(<<"P", "e", "t", "e", "r", " ", "J", "a", "c", "k", "s", "o", "n">>)
NationalGeographic == PyStr(<<"N", "a", "t", "i", "o", "n", "a", "l", " ", "G", "e", "o", "g", "r", "a", "p", "h", "i", "c">>)
ScientificAmerican == PyStr(<<"S", "c", "i", "e", "n", "t", "i", "f", "i", "c", " ", "A", "m", "e", "r", "i", "c", "a", "n">>)
Time == PyStr(<<"T", "i", "m", "e">>)
Emma == PyStr(<<"E", "m", "m", "a">>)
Austen == PyStr(<<"J", "a", "n", "e", " ", "A", "u", "s", "t", "e", "n">>)
Novel == PyStr(<<"N", "o", "v", "e", "l">>)
Up == PyStr(<<"U", "p">>)
Docter == PyStr(<<"P", "e", "t", "e", " ", "D", "o", "c", "t", "e", "r">>)
Wired == PyStr(<<"W", "i", "r", "e", "d">>)
Empty == PyStr(<<>>)
CD == PyStr(<<"C", "D">>)
Isbn == PyStr(<<"0", "4", "4", "1", "0", "1", "3", "5", "9", "3">>)
Many == PyStr(<<"m", "a", "n", "y">>)
Date2024_02_29 == PyStr(<<"2", "0", "2", "4", "-", "0", "2", "-", "2", "9">>)
Date2023_13_01 == PyStr(<<"2", "0", "2", "3", "-", "1", "3", "-", "0", "1">>)

-----------------------------------------------------------------------------
(* The store: LibrarySystem *)

\* The list populate_with_initial_data appends.
InitialItems ==
    << Book(TheHobbit, Tolkien, B001, PyInt(310), Fantasy, PyTrue),
       Book(T1984, Orwell, B002, PyInt(328), Dystopian, PyTrue),
       Book(Dune, Herbert, B003, PyInt(412), ScienceFiction, PyTrue),
       Book(Foundation, Asimov, B004, PyInt(255), ScienceFiction, PyTrue),
       Book(BraveNewWorld, Huxley, B005, PyInt(311), Dystopian, PyTrue),
       DVD(TheMatrix, Wachowskis, PyInt(136), D001, Empty, PyTrue),
       DVD(Inception, Nolan, PyInt(148), D002, Empty, PyTrue),
       DVD(LordOfTheRings, Jackson, PyInt(201), D003, Empty, PyTrue),
       Magazine(NationalGeographic, PyInt(230), PyDate(2023, 10, 1), M001, Empty, PyTrue),
       Magazine(ScientificAmerican, PyInt(1089), PyDate(2024, 1, 1), M002, Empty, PyTrue),
       Magazine(Time, PyInt(5221), PyDate(2023, 12, 25), M003, Empty, PyTrue) >>

\* What a call of the store leaves: the items, the file, what it returned
\* ("True", "False" or "None") and whether it called _save_data.
Outcome(its, f, ret, saved) == [items |-> its, file |-> f, ret |-> ret, saved |-> saved]

\* add_item without the check for an item of the same id.
AddItemUnchecked(its, f, item) ==
    Outcome(Append(its, item), SaveData(Append(its, item)), "True", TRUE)

\* add_item that puts the new item first.
AddItemFirst(its, f, item) ==
    IF FindIndex(its, item.itemId) # 0
    THEN Outcome(its, f, "False", FALSE)
    ELSE Outcome(<<item>> \o its, SaveData(<<item>> \o its), "True", TRUE)

\* add_item that puts the new item in the place of an item of the same id.
AddItemReplacing(its, f, item) ==
    IF FindIndex(its, item.itemId) # 0
    THEN LET after == [its EXCEPT ![FindIndex(its, item.itemId)] = item]
         IN  Outcome(after, SaveData(after), "False", TRUE)
    ELSE Outcome(Append(its, item), SaveData(Append(its, item)), "True", TRUE)

\* add_item(item)
AddItem(its, f, item) ==
    IF FindIndex(its, item.itemId) # 0
    THEN Outcome(its, f, "False", FALSE)
    ELSE Outcome(Append(its, item), SaveData(Append(its, item)), "True", TRUE)

\* borrow_item that saves also when it borrows nothing.
BorrowItemAlwaysSaving(its, f, item_id) ==
    LET i == FindIndex(its, item_id)
    IN  IF i # 0 /\ ItemBorrow(its[i]).ret
        THEN LET after == [its EXCEPT ![i] = ItemBorrow(its[i]).item]
             IN  Outcome(after, SaveData(after), "True", TRUE)
        ELSE Outcome(its, SaveData(its), "False", FALSE)

\* borrow_item(item_id)
BorrowItem(its, f, item_id) ==
    LET i == FindIndex(its, item_id)
    IN  IF i # 0
        THEN IF ItemBorrow(its[i]).ret
             THEN LET after == [its EXCEPT ![i] = ItemBorrow(its[i]).item]
                  IN  Outcome(after, SaveData(after), "True", TRUE)
             ELSE Outcome(its, f, "False", FALSE)
        ELSE Outcome(its, f, "False", FALSE)

\* return_item that returns every item of the catalog.
ReturnItemAll(its, f, item_id) ==
    IF FindIndex(its, item_id) # 0
    THEN LET after == [i \in 1..Len(its) |-> ItemReturn(its[i])]
         IN  Outcome(after, SaveData(after), "None", TRUE)
    ELSE Outcome(its, f, "None", FALSE)

\* return_item that saves only when the flag changed.
ReturnItemSavesOnChange(its, f, item_id) ==
    LET i == FindIndex(its, item_id)
    IN  IF i # 0 /\ ItemReturn(its[i]) # its[i]
        THEN LET after == [its EXCEPT ![i] = ItemReturn(its[i])]
             IN  Outcome(after, SaveData(after), "None", TRUE)
        ELSE Outcome(its, f, "None", FALSE)

\* return_item(item_id): no return statement on either branch.
ReturnItem(its, f, item_id) ==
    LET i == FindIndex(its, item_id)
    IN  IF i # 0
        THEN LET after == [its EXCEPT ![i] = ItemReturn(its[i])]
             IN  Outcome(after, SaveData(after), "None", TRUE)
        ELSE Outcome(its, f, "None", FALSE)

\* The seeding with its two borrows left out.
BorrowIfFoundSkipped(its, item_id) == its

\* item = _find_item_by_id(item_id); if item: item.borrow_item()
BorrowIfFound(its, item_id) ==
    IF FindIndex(its, item_id) # 0
    THEN [its EXCEPT ![FindIndex(its, item_id)] = ItemBorrow(its[FindIndex(its, item_id)]).item]
    ELSE its

\* populate_with_initial_data without its save.
PopulateUnsaved(its, f) ==
    Outcome(BorrowIfFound(BorrowIfFound(its \o InitialItems, B002), D003), f, "None", FALSE)

\* populate_with_initial_data()
Populate(its, f) ==
    LET after == BorrowIfFound(BorrowIfFound(its \o InitialItems, B002), D003)
    IN  Outcome(after, SaveData(after), "None", TRUE)

-----------------------------------------------------------------------------
(* The read-only operations of the store. *)

UpperCase ==
    <<"A", "B", "C", "D", "E", "F", "G", "H", "I", "J", "K", "L", "M",
      "N", "O", "P", "Q", "R", "S", "T", "U", "V", "W", "X", "Y", "Z">>
LowerCase ==
    <<"a", "b", "c", "d", "e", "f", "g", "h", "i", "j", "k", "l", "m",
      "n", "o", "p", "q", "r", "s", "t", "u", "v", "w", "x", "y", "z">>

\* str.lower() of one character.
LowerChar(c) ==
    IF \E i \in 1..Len(UpperCase) : UpperCase[i] = c
    THEN LowerCase[CHOOSE i \in 1..Len(UpperCase) : UpperCase[i] = c]
    ELSE c

\* v.lower() of a str.
PyLower(v) == PyStr([i \in 1..Len(v.s) |-> LowerChar(v.s[i])])

\* a in b of two str.
PyIn(a, b) ==
    \E i \in 0..(Len(b.s) - Len(a.s)) :
        \A j \in 1..Len(a.s) : b.s[i + j] = a.s[j]

\* A read-only call that also saves the catalog.
ReadOnlySaving(its, f, list) ==
    [items |-> its, file |-> SaveData(its), ret |-> "list", saved |-> TRUE, list |-> list]

\* What a read-only call does to the store: it assigns nothing and does not
\* save; list is the list it returns.
ReadOnly(its, f, list) ==
    [items |-> its, file |-> f, ret |-> "list", saved |-> FALSE, list |-> list]

\* _find_item_by_id(item_id): the first item with the id, here a list of it;
\* the empty list is None.
FindItemById(its, item_id) ==
    IF FindIndex(its, item_id) # 0 THEN <<its[FindIndex(its, item_id)]>> ELSE <<>>

\* get_available_items()
GetAvailableItems(its) == SelectSeq(its, LAMBDA item : Truthy(is_available(item)))

\* get_borrowed_items that lists the items whose flag is the value False.
GetBorrowedItemsIsFalse(its) == SelectSeq(its, LAMBDA item : is_available(item) = PyFalse)

\* get_borrowed_items()
GetBorrowedItems(its) == SelectSeq(its, LAMBDA item : ~Truthy(is_available(item)))

\* query in item.title.lower() or query in item.itemId.lower()
Matches(item, query) ==
    \/ PyIn(query, PyLower(item.title))
    \/ PyIn(query, PyLower(item.itemId))

\* search_item that does not lower the query.
SearchItemAsTyped(its, query) ==
    IF ~Truthy(query)
    THEN <<>>
    ELSE SelectSeq(its, LAMBDA item : Matches(item, query))

\* search_item(query)
SearchItem(its, query) ==
    IF ~Truthy(query)
    THEN <<>>
    ELSE SelectSeq(its, LAMBDA item : Matches(item, PyLower(query)))

-----------------------------------------------------------------------------
(* The calls the model makes, and the data files it starts on. *)

\* The records of the data files the program is started on.
RecBook ==
    JObject([type |-> TypeName("Book"), title |-> Dune, author |-> Herbert, itemId |-> B003,
             numPages |-> PyInt(412), genre |-> ScienceFiction, available |-> PyTrue])
RecBookSameId ==
    JObject([type |-> TypeName("Book"), title |-> Emma, author |-> Austen, itemId |-> B003,
             numPages |-> PyInt(474), genre |-> Novel, available |-> PyFalse])
RecDVD ==
    JObject([type |-> TypeName("DVD"), title |-> Up, director |-> Docter,
             duration |-> PyInt(96), itemId |-> X1, author |-> Empty, available |-> PyFalse])
RecMagazine ==
    JObject([type |-> TypeName("Magazine"), title |-> Wired, issueNumber |-> PyInt(7),
             publicationDate |-> Date2024_02_29, itemId |-> M001, author |-> Empty,
             available |-> PyTrue])
RecNoType ==
    JObject([title |-> Emma, author |-> Austen, itemId |-> Q0,
             numPages |-> PyInt(474), genre |-> Novel, available |-> PyTrue])
RecUnknownType ==
    JObject([type |-> CD, title |-> Emma, author |-> Austen, itemId |-> Q0,
             available |-> PyTrue])
RecMissingField ==
    JObject([type |-> TypeName("Book"), title |-> Emma, author |-> Austen, itemId |-> B003,
             genre |-> Novel, available |-> PyTrue])
RecExtraField ==
    JObject([type |-> TypeName("Book"), title |-> Dune, author |-> Herbert, itemId |-> B003,
             numPages |-> PyInt(412), genre |-> ScienceFiction, available |-> PyTrue,
             isbn |-> Isbn])
RecBadDate ==
    JObject([type |-> TypeName("Magazine"), title |-> Time, issueNumber |-> PyInt(5221),
             publicationDate |-> Date2023_13_01, itemId |-> M001, author |-> Empty,
             available |-> PyTrue])
RecDateNotText ==
    JObject([type |-> TypeName("Magazine"), title |-> Time, issueNumber |-> PyInt(5221),
             publicationDate |-> PyInt(20231001), itemId |-> M001, author |-> Empty,
             available |-> PyTrue])
RecWrongTypes ==
    JObject([type |-> TypeName("Book"), title |-> Emma, author |-> Austen, itemId |-> X1,
             numPages |-> Many, genre |-> PyNone, available |-> PyInt(0)])
RecListId ==
    JObject([type |-> TypeName("Book"), title |-> Emma, author |-> Austen,
             itemId |-> PyEmptyList, numPages |-> PyInt(474), genre |-> Novel,
             available |-> PyTrue])
RecNotObject == JScalar(PyInt(5))

Records ==
    { RecBook, RecBookSameId, RecDVD, RecMagazine, RecNoType, RecUnknownType,
      RecMissingField, RecExtraField, RecBadDate, RecDateNotText, RecWrongTypes,
      RecListId, RecNotObject }

DataFiles ==
    {Absent, Malformed, JNumber} \cup {JArray(s) : s \in UNION {[1..n -> Records] : n \in 0..MaxFile}}

\* The items add_item is called with.
NewItems ==
    { Book(Dune, Herbert, B003, PyInt(412), ScienceFiction, PyTrue),
      DVD(Up, Docter, PyInt(96), X1, Empty, PyTrue),
      Magazine(Wired, PyInt(7), PyDate(2024, 2, 29), M001, Empty, PyTrue),
      Magazine(Time, PyInt(5221), PyDate(2023, 12, 25), X1, Empty, PyFalse) }

\* The ids borrow_item and return_item are called with; no item ever has Q0.
ItemIds == {B003, X1, M001, Q0}

\* The queries of search_item.
QDune == PyStr(<<"d", "u", "n", "e">>)
QDUNE == PyStr(<<"D", "U", "N", "E">>)
Queries ==
    {Empty, QDune, QDUNE, PyStr(<<"b", "0", "0">>), PyStr(<<"x", "1">>), PyStr(<<"e">>)}

NoCall == [op |-> "none", id |-> PyNone, item |-> PyNone, ret |-> "None", saved |-> FALSE]

Init ==
    /\ file \in DataFiles
    /\ items = <<>>
    /\ phase = "new"
    /\ last = NoCall
    /\ prev = PyNone
    /\ origin = "foreign"
    /\ result = <<>>
    /\ other = [items |-> <<>>, phase |-> "new"]
    /\ writers = <<>>
    /\ seeded = FALSE

\* The id the last call borrowed.
Borrowed == IF last.op = "borrow_item" /\ last.ret = "True" THEN last.id ELSE PyNone

\* A call of the store with this outcome.
Did(op, item_id, item, out) ==
    /\ items' = out.items
    /\ file' = out.file
    /\ origin' = IF out.saved THEN "saved" ELSE origin
    /\ last' = [op |-> op, id |-> item_id, item |-> item, ret |-> out.ret,
                saved |-> out.saved]
    /\ prev' = Borrowed

\* LibrarySystem(data_file_path): a run of the program starts with it.
Construct ==
    /\ items' = LoadData(file).items
    /\ phase' = IF LoadData(file).raised = "" THEN "ready" ELSE "raised"
    /\ last' = [op |-> "construct", id |-> PyNone, item |-> PyNone, saved |-> FALSE,
                ret |-> IF LoadData(file).raised = "" THEN "None" ELSE LoadData(file).raised]
    /\ prev' = Borrowed
    /\ result' = <<>>
    /\ UNCHANGED <<file, origin, other, writers, seeded>>

add_item(item) ==
    /\ phase = "ready"
    /\ Did("add_item", item.itemId, item, AddItem(items, file, item))
    /\ result' = <<>>
    /\ UNCHANGED <<phase, other, writers, seeded>>

borrow_item(item_id) ==
    /\ phase = "ready"
    /\ Did("borrow_item", item_id, PyNone, BorrowItem(items, file, item_id))
    /\ result' = <<>>
    /\ UNCHANGED <<phase, other, writers, seeded>>

return_item(item_id) ==
    /\ phase = "ready"
    /\ Did("return_item", item_id, PyNone, ReturnItem(items, file, item_id))
    /\ result' = <<>>
    /\ UNCHANGED <<phase, other, writers, seeded>>

\* main calls populate_with_initial_data when the catalog is empty.
populate_with_initial_data ==
    /\ phase = "ready"
    /\ items = <<>>
    /\ Did("populate", PyNone, PyNone, Populate(items, file))
    /\ seeded' = TRUE
    /\ result' = <<>>
    /\ UNCHANGED <<phase, other, writers>>

\* A read-only call of the store, with the list it returned or displayed.
Asked(op, item_id, out) ==
    /\ Did(op, item_id, PyNone, out)
    /\ result' = out.list
    /\ UNCHANGED <<phase, other, writers, seeded>>

find_item_by_id(item_id) ==
    /\ phase = "ready"
    /\ Asked("find_item_by_id", item_id, ReadOnly(items, file, FindItemById(items, item_id)))

get_available_items ==
    /\ phase = "ready"
    /\ Asked("get_available_items", PyNone, ReadOnly(items, file, GetAvailableItems(items)))

get_borrowed_items ==
    /\ phase = "ready"
    /\ Asked("get_borrowed_items", PyNone, ReadOnly(items, file, GetBorrowedItems(items)))

search_item(query) ==
    /\ phase = "ready"
    /\ Asked("search_item", query, ReadOnly(items, file, SearchItem(items, query)))

\* list_all_items(), list_available_items(), list_borrowed_items(): each
\* displays a list of items.
list_all_items ==
    /\ phase = "ready"
    /\ Asked("list_all_items", PyNone, ReadOnly(items, file, items))

list_available_items ==
    /\ phase = "ready"
    /\ Asked("list_available_items", PyNone, ReadOnly(items, file, GetAvailableItems(items)))

list_borrowed_items ==
    /\ phase = "ready"
    /\ Asked("list_borrowed_items", PyNone, ReadOnly(items, file, GetBorrowedItems(items)))

Next ==
    \/ Construct
    \/ \E item \in NewItems : add_item(item)
    \/ \E item_id \in ItemIds : borrow_item(item_id)
    \/ \E item_id \in ItemIds : return_item(item_id)
    \/ populate_with_initial_data

Spec == Init /\ [][Next]_vars

-----------------------------------------------------------------------------
(* Two instances of LibrarySystem on one data file: A holds items and      *)
(* phase, B holds other.  Both load the file before either changes it.     *)

\* The data files the two instances are constructed on.
TwoFiles == {Absent, JArray(<<RecMagazine>>), JArray(<<RecBook, RecDVD>>)}

InitTwo ==
    /\ Init
    /\ file \in TwoFiles

\* self._items of the instance.
CatalogOf(who) == IF who = "A" THEN items ELSE other.items

\* A save of the instance: the call, whether it changed the catalog, and
\* the item it added or borrowed or returned, as the call left it.
Save(who, op, item_id, item, out) ==
    [who |-> who, op |-> op, changed |-> out.items # CatalogOf(who),
     now |-> IF op = "add_item" THEN item ELSE out.items[FindIndex(out.items, item_id)]]

\* LibrarySystem(data_file_path) of instance B.
construct_other ==
    /\ other.phase = "new"
    /\ other' = [items |-> LoadData(file).items,
                 phase |-> IF LoadData(file).raised = "" THEN "ready" ELSE "raised"]
    /\ last' = [op |-> "construct", id |-> PyNone, item |-> PyNone, saved |-> FALSE,
                ret |-> IF LoadData(file).raised = "" THEN "None" ELSE LoadData(file).raised]
    /\ prev' = Borrowed
    /\ result' = <<>>
    /\ UNCHANGED <<file, items, phase, origin, writers, seeded>>

\* A call of the store of one instance, with this outcome.
Called(who, op, item_id, item, out) ==
    /\ phase = "ready"
    /\ other.phase = "ready"
    /\ out.saved => Len(writers) < MaxSaves
    /\ items' = IF who = "A" THEN out.items ELSE items
    /\ other' = IF who = "B" THEN [other EXCEPT !.items = out.items] ELSE other
    /\ file' = out.file
    /\ origin' = IF out.saved THEN "saved" ELSE origin
    /\ writers' = IF out.saved THEN Append(writers, Save(who, op, item_id, item, out))
                  ELSE writers
    /\ last' = [op |-> op, id |-> item_id, item |-> item, ret |-> out.ret,
                saved |-> out.saved]
    /\ prev' = Borrowed
    /\ result' = <<>>
    /\ UNCHANGED <<phase, seeded>>

add_item_of(who, item) ==
    Called(who, "add_item", item.itemId, item, AddItem(CatalogOf(who), file, item))

borrow_item_of(who, item_id) ==
    Called(who, "borrow_item", item_id, PyNone, BorrowItem(CatalogOf(who), file, item_id))

return_item_of(who, item_id) ==
    Called(who, "return_item", item_id, PyNone, ReturnItem(CatalogOf(who), file, item_id))

NextTwo ==
    \/ phase = "new" /\ Construct
    \/ construct_other
    \/ \E who \in {"A", "B"}, item \in NewItems : add_item_of(who, item)
    \/ \E who \in {"A", "B"}, item_id \in ItemIds : borrow_item_of(who, item_id)
    \/ \E who \in {"A", "B"}, item_id \in ItemIds : return_item_of(who, item_id)

SpecTwo == InitTwo /\ [][NextTwo]_vars

-----------------------------------------------------------------------------
(* The store with populate_with_initial_data called as a method of its own, *)
(* on a catalog that need not be empty.                                     *)

populate_on_any_catalog ==
    /\ phase = "ready"
    /\ Len(items) <= MaxSeedOn
    /\ Did("populate", PyNone, PyNone, Populate(items, file))
    /\ seeded' = TRUE
    /\ result' = <<>>
    /\ UNCHANGED <<phase, other, writers>>

NextSeedAny ==
    \/ Construct
    \/ \E item \in NewItems : add_item(item)
    \/ \E item_id \in ItemIds : borrow_item(item_id)
    \/ \E item_id \in ItemIds : return_item(item_id)
    \/ populate_on_any_catalog

SpecSeedAny == Init /\ [][NextSeedAny]_vars

-----------------------------------------------------------------------------
(* main(): runs of the program on the data file, driven through the menu. *)

\* What selection_menu(prompt, options) returns: one of the options, or None
\* (here the empty list) when there is no option or the user cancels.  The
\* options the model selects are the items with the ids of ItemIds.
Selections(options) ==
    {<<options[i]>> : i \in {j \in 1..Len(options) : options[j].itemId \in ItemIds}}
        \cup {<<>>}

\* Borrow through a menu that offers every item of the catalog.
BorrowSelectionsAll(its) == Selections(its)

\* Case 3: the selections of "Select an item to borrow".
BorrowSelections(its) == Selections(GetAvailableItems(its))

\* The items add_item_flow constructs: it passes no available argument.
MenuItems == {item \in NewItems : item.available = PyTrue}

\* A step of the menu loop that calls the store, with this outcome.
MenuDid(op, item_id, item, out) ==
    /\ phase = "menu"
    /\ Did(op, item_id, item, out)
    /\ result' = <<>>
    /\ UNCHANGED <<phase, other, writers, seeded>>

\* A step of the menu loop that calls a read-only method of the store.
MenuAsked(op, item_id, out) ==
    /\ phase = "menu"
    /\ Asked(op, item_id, out)

\* library = LibrarySystem(DATA_FILE): a run starts, the first one or one
\* after a run that has exited or died of an exception.
main_construct ==
    /\ phase \in {"new", "exited", "raised"}
    /\ Construct

\* if not library._items: library.populate_with_initial_data()
main_populate ==
    /\ phase = "ready"
    /\ items = <<>>
    /\ Did("populate", PyNone, PyNone, Populate(items, file))
    /\ phase' = "menu"
    /\ seeded' = TRUE
    /\ result' = <<>>
    /\ UNCHANGED <<other, writers>>

\* The catalog is not empty after the load: main goes on to the menu loop.
main_menu ==
    /\ phase = "ready"
    /\ items # <<>>
    /\ phase' = "menu"
    /\ UNCHANGED <<file, items, last, prev, origin, result, other, writers, seeded>>

\* Cases 0, 1 and 2.
menu_list ==
    \/ MenuAsked("list_all_items", PyNone, ReadOnly(items, file, items))
    \/ MenuAsked("list_available_items", PyNone, ReadOnly(items, file, GetAvailableItems(items)))
    \/ MenuAsked("list_borrowed_items", PyNone, ReadOnly(items, file, GetBorrowedItems(items)))

\* Case 3.
menu_borrow ==
    \E selected \in BorrowSelections(items) :
        IF selected # <<>>
        THEN MenuDid("borrow_item", selected[1].itemId, PyNone,
                     BorrowItem(items, file, selected[1].itemId))
        ELSE MenuDid("cancelled", PyNone, PyNone, Outcome(items, file, "None", FALSE))

\* Case 4.
menu_return ==
    \E selected \in Selections(GetBorrowedItems(items)) :
        IF selected # <<>>
        THEN MenuDid("return_item", selected[1].itemId, PyNone,
                     ReturnItem(items, file, selected[1].itemId))
        ELSE MenuDid("cancelled", PyNone, PyNone, Outcome(items, file, "None", FALSE))

\* Case 5.
menu_search ==
    \E query \in Queries :
        MenuAsked("search_item", query, ReadOnly(items, file, SearchItem(items, query)))

\* Case 6, add_item_flow(library): an id that is in the catalog ends the flow
\* before add_item is called.
menu_add ==
    \E item \in MenuItems :
        IF FindItemById(items, item.itemId) # <<>>
        THEN MenuDid("add_item_flow", item.itemId, item, Outcome(items, file, "None", FALSE))
        ELSE MenuDid("add_item", item.itemId, item, AddItem(items, file, item))

\* Case 7.
menu_exit ==
    /\ phase = "menu"
    /\ phase' = "exited"
    /\ last' = [NoCall EXCEPT !.op = "exit"]
    /\ prev' = Borrowed
    /\ result' = <<>>
    /\ UNCHANGED <<file, items, origin, other, writers, seeded>>

NextMain ==
    \/ main_construct
    \/ main_populate
    \/ main_menu
    \/ menu_list
    \/ menu_borrow
    \/ menu_return
    \/ menu_search
    \/ menu_add
    \/ menu_exit

SpecMain == Init /\ [][NextMain]_vars

-----------------------------------------------------------------------------
(* One instance on a data file of which the load does not take every      *)
(* record into memory.                                                     *)

\* The data file is one whose load ends without an exception and skips a
\* record, or finds a malformed document.
InitLossy ==
    /\ Init
    /\ LoadData(file).raised = ""
    /\ \/ file.state = "malformed"
       \/ file.state = "array" /\ Len(LoadData(file).items) < Len(file.records)

NextLossy ==
    \/ phase = "new" /\ Construct
    \/ \E item \in NewItems : add_item(item)
    \/ \E item_id \in ItemIds : borrow_item(item_id)
    \/ \E item_id \in ItemIds : return_item(item_id)
    \/ populate_with_initial_data

SpecLossy == InitLossy /\ [][NextLossy]_vars

\* The store with its read-only operations called as well.
NextQueries ==
    \/ Next
    \/ \E item_id \in ItemIds : find_item_by_id(item_id)
    \/ get_available_items
    \/ get_borrowed_items
    \/ \E query \in Queries : search_item(query)
    \/ list_all_items
    \/ list_available_items
    \/ list_borrowed_items

SpecQueries == Init /\ [][NextQueries]_vars

-----------------------------------------------------------------------------
(* Properties *)

\* The item of the catalog `its` with this id is at index i.
HasId(its, i, item_id) == i \in 1..Len(its) /\ PyEq(its[i].itemId, item_id)

\* Some item of the catalog `its` has this id.
Known(its, item_id) == \E i \in 1..Len(its) : HasId(its, i, item_id)

\* The data file f holds one record per item of `its`, in catalog order, with
\* the item's class as its type, the item's fields and its availability, and a
\* Magazine's date as YYYY-MM-DD text.
RecordOf(rec, item) ==
    /\ rec.obj
    /\ DOMAIN rec.d = ((DOMAIN item) \ {"cls"}) \cup {"type"}
    /\ rec.d.type = TypeName(item.cls)
    /\ \A fld \in (DOMAIN item) \ {"cls"} :
          IF item.cls = "Magazine" /\ fld = "publicationDate"
          THEN /\ rec.d[fld].k = "str"
               /\ IsoShape(rec.d[fld].s)
               /\ IsoYear(rec.d[fld].s) = Year(item[fld])
               /\ IsoMonth(rec.d[fld].s) = Month(item[fld])
               /\ IsoDay(rec.d[fld].s) = Day(item[fld])
          ELSE rec.d[fld] = item[fld]

FileHolds(f, its) ==
    /\ f.state = "array"
    /\ Len(f.records) = Len(its)
    /\ \A i \in 1..Len(its) : RecordOf(f.records[i], its[i])

\* C1: in every state reached by constructing a LibrarySystem on any data file
\* and then calling add_item, borrow_item and return_item in any order, no two
\* items of the catalog have the same itemId.
C1_UniqueItemIds ==
    \A i, j \in 1..Len(items) : i # j => ~PyEq(items[i].itemId, items[j].itemId)

\* A file with two records of one id was loaded and an add_item of an id that
\* is in the catalog has been refused.
C1_Witness ==
    /\ phase = "ready"
    /\ origin = "foreign"
    /\ Len(file.records) = 2
    /\ file.records[1].obj /\ file.records[2].obj
    /\ "itemId" \in DOMAIN file.records[1].d /\ "itemId" \in DOMAIN file.records[2].d
    /\ file.records[1].d.itemId = file.records[2].d.itemId
    /\ Len(items) = 1
    /\ last.op = "add_item"
    /\ last.ret = "False"

\* C2: add_item(item) returns False, leaves the catalog unchanged and does not
\* write the file when an item with item.itemId is in the catalog; otherwise it
\* appends the item at the end of the catalog, saves the file and returns True.
C2_AddItemContract ==
    [][last'.op = "add_item" =>
          IF Known(items, last'.item.itemId)
          THEN /\ last'.ret = "False"
               /\ items' = items
               /\ file' = file
               /\ ~last'.saved
          ELSE /\ last'.ret = "True"
               /\ items' = Append(items, last'.item)
               /\ last'.saved
               /\ FileHolds(file', items')]_vars

\* An add_item was refused for its id, in a catalog that an earlier call saved.
C2_Witness ==
    /\ last.op = "add_item"
    /\ last.ret = "False"
    /\ ~last.saved
    /\ origin = "saved"
    /\ Known(items, last.item.itemId)
    /\ \A i \in 1..Len(items) : items[i] # last.item

\* C3: borrow_item(id) returns False, changes no availability and does not
\* write the file in exactly two cases: no item has this id, or the item with
\* this id is unavailable; otherwise it makes that item unavailable, saves the
\* file and returns True.
C3_BorrowItemContract ==
    [][last'.op = "borrow_item" =>
          IF \/ ~Known(items, last'.id)
             \/ \E i \in 1..Len(items) :
                   HasId(items, i, last'.id) /\ ~Truthy(items[i].available)
          THEN /\ last'.ret = "False"
               /\ items' = items
               /\ file' = file
               /\ ~last'.saved
          ELSE /\ last'.ret = "True"
               /\ Len(items') = Len(items)
               /\ \A i \in 1..Len(items) :
                     IF HasId(items, i, last'.id)
                     THEN items'[i] = [items[i] EXCEPT !.available = PyFalse]
                     ELSE items'[i] = items[i]
               /\ last'.saved
               /\ FileHolds(file', items')]_vars

\* The item the call before borrowed has been asked for again, and refused.
C3_Witness ==
    /\ last.op = "borrow_item"
    /\ last.ret = "False"
    /\ prev = last.id
    /\ Known(items, last.id)

\* C4: return_item(id) with an id that no item has changes no item, does not
\* write the file, and returns a failure result that differs from the result
\* of a successful return_item.
C4_ReturnNotFoundFails ==
    [][(last'.op = "return_item" /\ ~Known(items, last'.id)) =>
          /\ items' = items
          /\ file' = file
          /\ ~last'.saved
          /\ (last.op = "return_item" /\ last.saved) => last'.ret # last.ret]_vars

\* C5: a successful borrow_item(id) followed by return_item(id) leaves the
\* item available; return_item(id) on an available item leaves it available,
\* with no error; and return_item(id) twice leaves what return_item(id) once
\* leaves.
C5_ReturnRestores ==
    [][(last'.op = "return_item" /\ Known(items, last'.id)) =>
          /\ phase' = "ready"
          /\ \A i \in 1..Len(items) :
                HasId(items, i, last'.id) =>
                    /\ items'[i].available = PyTrue
                    /\ (prev' = last'.id => items[i].available = PyFalse)
                    /\ (items[i].available = PyTrue => items' = items)
          /\ (last.op = "return_item" /\ last.id = last'.id) =>
                (items' = items /\ file' = file)]_vars

\* A return_item of the item that the call before borrowed.
C5_Witness ==
    /\ last.op = "return_item"
    /\ prev = last.id
    /\ \E i \in 1..Len(items) : HasId(items, i, last.id) /\ items[i].available = PyTrue

\* C6: a catalog that _save_data wrote is read back by a new LibrarySystem on
\* the same file as the same items in the same order (class, fields, the
\* Magazine's date and availability), and no record is skipped.
C6_RoundTrip ==
    [][(last'.op = "construct" /\ origin = "saved") =>
          /\ phase' = "ready"
          /\ Len(items') = Len(file.records)
          /\ items' = items]_vars

\* A saved catalog of Books, DVDs and Magazines, some borrowed, was read back.
C6_Witness ==
    /\ last.op = "construct"
    /\ origin = "saved"
    /\ phase = "ready"
    /\ \E i, j, k \in 1..Len(items) :
          /\ items[i].cls = "Book"
          /\ items[j].cls = "DVD" /\ items[j].available = PyFalse
          /\ items[k].cls = "Magazine" /\ items[k].available = PyTrue

\* What the records of a file are, read as the claims about loading read them.
KnownTypes == {TypeName("Book"), TypeName("DVD"), TypeName("Magazine")}

ClassOf(rec) == CHOOSE cls \in {"Book", "DVD", "Magazine"} : TypeName(cls) = rec.d.type

HasNoType(rec) == ~rec.obj \/ "type" \notin DOMAIN rec.d

HasUnknownType(rec) == rec.obj /\ "type" \in DOMAIN rec.d /\ rec.d.type \notin KnownTypes

HasKnownType(rec) == rec.obj /\ "type" \in DOMAIN rec.d /\ rec.d.type \in KnownTypes

MissesField(rec) == HasKnownType(rec) /\ ~(Required(ClassOf(rec)) \subseteq DOMAIN rec.d)

HasExtraField(rec) ==
    HasKnownType(rec) /\ ~(((DOMAIN rec.d) \ {"type"}) \subseteq Params(ClassOf(rec)))

IsMagazineWithDate(rec) ==
    HasKnownType(rec) /\ ClassOf(rec) = "Magazine" /\ "publicationDate" \in DOMAIN rec.d

DateIsNotText(rec) == IsMagazineWithDate(rec) /\ rec.d.publicationDate.k # "str"

DateIsBadText(rec) ==
    /\ IsMagazineWithDate(rec)
    /\ rec.d.publicationDate.k = "str"
    /\ ~(/\ IsoShape(rec.d.publicationDate.s)
         /\ IsoYear(rec.d.publicationDate.s) >= 1
         /\ IsoMonth(rec.d.publicationDate.s) \in 1..12
         /\ IsoDay(rec.d.publicationDate.s) \in
               1..DaysInMonth(IsoYear(rec.d.publicationDate.s),
                              IsoMonth(rec.d.publicationDate.s)))

IdOf(rec) == IF rec.obj /\ "itemId" \in DOMAIN rec.d THEN rec.d.itemId ELSE PyNone

\* The load stops at this record with an exception.
Aborts(rec, ids) ==
    \/ ~rec.obj
    \/ IdOf(rec).k = "list"
    \/ (IdOf(rec) \notin ids /\ DateIsBadText(rec))

\* The record is skipped: for the four reasons of C7, and when `amended` also
\* for a field its class has no parameter for, or a Magazine date that is no text.
Skipped(rec, ids, amended) ==
    \/ IdOf(rec) \in ids
    \/ HasNoType(rec)
    \/ HasUnknownType(rec)
    \/ MissesField(rec)
    \/ (amended /\ (HasExtraField(rec) \/ DateIsNotText(rec)))

\* The indices of the records a load keeps, in file order, up to the record
\* that stops it (stopped) or to the end of the file.
RECURSIVE Kept(_, _, _, _, _)
Kept(records, i, ids, kept, amended) ==
    IF i > Len(records) THEN [kept |-> kept, stopped |-> FALSE]
    ELSE IF amended /\ Aborts(records[i], ids) THEN [kept |-> kept, stopped |-> TRUE]
    ELSE IF Skipped(records[i], ids, amended)
         THEN Kept(records, i + 1, ids, kept, amended)
         ELSE Kept(records, i + 1, ids \cup {IdOf(records[i])}, Append(kept, i), amended)

\* The catalog holds the records of these indices, in this order.
HoldsRecords(its, records, kept) ==
    /\ Len(its) = Len(kept)
    /\ \A n \in 1..Len(kept) :
          /\ TypeName(its[n].cls) = records[kept[n]].d.type
          /\ its[n].itemId = records[kept[n]].d.itemId
          /\ its[n].title = records[kept[n]].d.title

\* The step was a load of a file that is a JSON array.
LoadedArray == last.op = "construct" /\ file.state = "array"

\* C7 as claimed: a load of a JSON array skips exactly the records with no
\* type, an unknown type, the itemId of a record already loaded or a missing
\* required field, and loads every other record, in file order.
C7_SkipsExactlyFour ==
    (LoadedArray /\ phase = "ready") =>
        HoldsRecords(items, file.records, Kept(file.records, 1, {}, <<>>, FALSE).kept)

\* C7, amended: a load of a JSON array that runs to the end has skipped exactly
\* the records with no type, an unknown type, the itemId of a record already
\* loaded, a missing required field, a field that is no parameter of their
\* class, or (Magazine) a publicationDate that is no text, and has loaded every
\* other record, in file order; the load does not run to the end, and raises,
\* exactly when it comes to a record that is no JSON object, to a record whose
\* itemId is a JSON array, or to a Magazine with a new itemId whose
\* publicationDate is text that is no date.
C7_SkipsMalformed ==
    LoadedArray =>
        LET k == Kept(file.records, 1, {}, <<>>, TRUE)
        IN  /\ (phase = "raised") = k.stopped
            /\ HoldsRecords(items, file.records, k.kept)
            /\ (file.records = <<RecBook, RecUnknownType>> =>
                    (phase = "ready" /\ Len(items) = 1 /\ items[1].cls = "Book"))
            /\ (file.records = <<RecBookSameId, RecBook>> =>
                    (phase = "ready" /\ Len(items) = 1 /\ items[1].title = Emma))

\* The file of a well-formed Book and a record of unknown type was loaded.
C7_Witness ==
    /\ LoadedArray
    /\ phase = "ready"
    /\ file.records = <<RecBook, RecUnknownType>>
    /\ Len(items) = 1
    /\ items[1] = Book(Dune, Herbert, B003, PyInt(412), ScienceFiction, PyTrue)

\* A record with the documented fields of its class, each of its documented type.
IsText(v) == v.k = "str"
IsNumber(v) == v.k = "int"
FieldIsTyped(rec, fld) ==
    CASE fld \in {"title", "author", "itemId", "genre", "director"} -> IsText(rec.d[fld])
      [] fld \in {"numPages", "duration", "issueNumber"} -> IsNumber(rec.d[fld])
      [] fld = "available" -> rec.d[fld].k = "bool"
      [] fld = "publicationDate" -> ~DateIsNotText(rec) /\ ~DateIsBadText(rec)
      [] OTHER -> FALSE

WellFormed(rec) ==
    /\ HasKnownType(rec)
    /\ ~MissesField(rec)
    /\ ~HasExtraField(rec)
    /\ \A fld \in (DOMAIN rec.d) \ {"type"} : FieldIsTyped(rec, fld)

\* C8: whatever one record of a file whose JSON parses contains, constructing
\* a LibrarySystem raises nothing, and loads every well-formed record of the
\* file (the first of each itemId).
C8_BadRecordNeverAborts ==
    LoadedArray =>
        /\ phase = "ready"
        /\ last.ret = "None"
        /\ \A i \in 1..Len(file.records) :
              (/\ WellFormed(file.records[i])
               /\ \A j \in 1..(i - 1) :
                     WellFormed(file.records[j]) => IdOf(file.records[j]) # IdOf(file.records[i]))
              => \E n \in 1..Len(items) :
                    /\ items[n].itemId = IdOf(file.records[i])
                    /\ items[n].title = file.records[i].d.title

\* C9: constructing a LibrarySystem where no file exists, or on a file that is
\* no well-formed JSON document, raises nothing, leaves the catalog empty and
\* does not write the file.
C9_NoFileOrMalformed ==
    [][(last'.op = "construct" /\ file.state \in {"absent", "malformed"}) =>
          /\ phase' = "ready"
          /\ last'.ret = "None"
          /\ items' = <<>>
          /\ file' = file
          /\ origin' = origin
          /\ ~last'.saved]_vars

\* A LibrarySystem was constructed on a malformed file.
C9_Witness ==
    /\ last.op = "construct"
    /\ file.state = "malformed"
    /\ phase = "ready"
    /\ items = <<>>

\* C10: right after each add_item that returns True, each borrow_item that
\* returns True and each return_item of an id that is in the catalog (also of
\* an available item), the data file holds one record per item of the catalog,
\* in catalog order, with the item's class, fields and availability.
C10_SavedAfterMutation ==
    [][(\/ last'.op = "add_item" /\ last'.ret = "True"
        \/ last'.op = "borrow_item" /\ last'.ret = "True"
        \/ last'.op = "return_item" /\ Known(items, last'.id)) =>
          /\ last'.saved
          /\ origin' = "saved"
          /\ FileHolds(file', items')]_vars

\* A borrow_item returned True in a catalog that holds a Magazine and a DVD.
C10_Witness ==
    /\ last.op = "borrow_item"
    /\ last.ret = "True"
    /\ FileHolds(file, items)
    /\ \E i, j \in 1..Len(items) : items[i].cls = "Magazine" /\ items[j].cls = "DVD"

-----------------------------------------------------------------------------
(* The read-only operations *)

ReadOps == {"find_item_by_id", "get_available_items", "get_borrowed_items", "search_item"}

\* C11: a step of _find_item_by_id, get_available_items, get_borrowed_items
\* or search_item, with any argument and in any reachable state, leaves the
\* catalog (items, order, availability) and the data file as they were.
C11_ReadOnlyFrame ==
    [][last'.op \in ReadOps => items' = items /\ file' = file]_vars

\* A read-only call returned items of a catalog that the data file does not
\* hold as a save would write it.
C11_Witness ==
    /\ last.op \in ReadOps
    /\ result # <<>>
    /\ file # SaveData(items)

\* Two characters are the same letter in either case, or the same character.
SameLetter(c, d) ==
    \/ c = d
    \/ \E i \in 1..Len(UpperCase) : {c, d} = {UpperCase[i], LowerCase[i]}

\* The text contains the query when letter case is ignored.
ContainsIgnoringCase(text, query) ==
    \E offset \in 0..(Len(text.s) - Len(query.s)) :
        \A j \in 1..Len(query.s) : SameLetter(text.s[offset + j], query.s[j])

\* The items whose title or itemId contains the query, in catalog order.
ItemsContaining(its, query) ==
    SelectSeq(its, LAMBDA item : \/ ContainsIgnoringCase(item.title, query)
                                 \/ ContainsIgnoringCase(item.itemId, query))

\* C12: search_item(query) returns the empty list for the empty query, and
\* for a non-empty query exactly the items, in catalog order, whose title or
\* itemId contains the query as a substring when letter case is ignored.
C12_SearchContract ==
    last.op = "search_item" =>
        result = IF last.id = Empty THEN <<>> ELSE ItemsContaining(items, last.id)

\* search_item("dune") or search_item("DUNE") returned exactly the one item
\* titled "Dune" of a catalog of several items.
C12_Witness ==
    /\ last.op = "search_item"
    /\ last.id \in {QDune, QDUNE}
    /\ Len(items) > 1
    /\ Len(result) = 1
    /\ result[1].title = Dune

-----------------------------------------------------------------------------
(* Seeding *)

\* C13: populate_with_initial_data on an empty store leaves a catalog of
\* exactly 11 items, the Books B001..B005, the DVDs D001..D003 and the
\* Magazines M001..M003, of which exactly B002 and D003 are unavailable, and
\* the data file holds exactly this catalog.
C13_SeededCatalog ==
    last.op = "populate" =>
        /\ Len(items) = 11
        /\ {items[i].itemId : i \in 1..Len(items)} =
               {B001, B002, B003, B004, B005, D001, D002, D003, M001, M002, M003}
        /\ \A i \in 1..Len(items) :
              /\ items[i].itemId \in {B001, B002, B003, B004, B005} => items[i].cls = "Book"
              /\ items[i].itemId \in {D001, D002, D003} => items[i].cls = "DVD"
              /\ items[i].itemId \in {M001, M002, M003} => items[i].cls = "Magazine"
              /\ items[i].available = IF items[i].itemId \in {B002, D003} THEN PyFalse ELSE PyTrue
        /\ FileHolds(file, items)

\* The store was seeded on a data file that was absent or held no loadable
\* record.
C13_Witness ==
    /\ last.op = "populate"
    /\ last.saved
    /\ Len(items) = 11

-----------------------------------------------------------------------------
(* What the operations leave alone *)

\* The two items differ at most in the available flag.
SameButAvailable(item, after) == [item EXCEPT !.available = after.available] = after

\* C14: a step of borrow_item(id) or return_item(id) changes at most the
\* available flag of the item whose itemId is id: every other field of that
\* item, every field of every other item, and the number and order of the
\* items stay; a step of add_item changes no field of an item that was in the
\* catalog.
C14_OnlyAvailableChanges ==
    [][/\ last'.op \in {"borrow_item", "return_item"} =>
            /\ Len(items') = Len(items)
            /\ \A i \in 1..Len(items) :
                  IF PyEq(items[i].itemId, last'.id)
                  THEN SameButAvailable(items[i], items'[i])
                  ELSE items'[i] = items[i]
       /\ last'.op = "add_item" =>
            /\ Len(items') >= Len(items)
            /\ \A i \in 1..Len(items) : items'[i] = items[i]]_vars

\* A return_item has changed the flag of one item of a catalog in which
\* another item is borrowed.
C14_Witness ==
    /\ last.op = "return_item"
    /\ last.saved
    /\ \E i, j \in 1..Len(items) :
          /\ PyEq(items[i].itemId, last.id)
          /\ items[i].available = PyTrue
          /\ ~Truthy(items[j].available)

\* C15: an item is never deleted.  In every step of add_item, borrow_item,
\* return_item, the seeding, a search or a listing, every item of the catalog
\* is in the catalog afterwards, at the same position; and the catalog grows
\* only in a successful add_item or in the seeding.
C15_NeverDeleted ==
    [][last'.op # "construct" =>
          /\ Len(items') >= Len(items)
          /\ \A i \in 1..Len(items) : SameButAvailable(items[i], items'[i])
          /\ Len(items') > Len(items) =>
                \/ last'.op = "add_item" /\ last'.ret = "True"
                \/ last'.op = "populate"]_vars

\* add_item has refused an item whose id is in the catalog, and the catalog
\* holds the item of that id which it held before.
C15_Witness ==
    /\ last.op = "add_item"
    /\ last.ret = "False"
    /\ \E i \in 1..Len(items) :
          /\ PyEq(items[i].itemId, last.id)
          /\ ~SameButAvailable(last.item, items[i])

-----------------------------------------------------------------------------
(* Two instances on one data file *)

\* The data file holds a record of this item with its fields and availability.
Held(f, item) ==
    /\ f.state = "array"
    /\ \E i \in 1..Len(f.records) : RecordOf(f.records[i], item)

\* The last save is B's and the k-th save is an earlier one of A that changed
\* A's catalog.
SavedThenOverwritten(k) ==
    /\ k \in 1..(Len(writers) - 1)
    /\ writers[k].who = "A"
    /\ writers[k].changed
    /\ writers[Len(writers)].who = "B"

\* C16 as stated: when both instances have loaded the data file, A has made a
\* successful mutation and saved, and B has afterwards made a successful
\* mutation and saved, the file holds exactly B's catalog and the item A
\* changed is not in the file as A left it.
C16_FirstSaveAlwaysLost ==
    \A k \in 1..Len(writers) :
        SavedThenOverwritten(k) =>
            /\ FileHolds(file, other.items)
            /\ ~Held(file, writers[k].now)

\* C16: when both instances have loaded the data file, A has made a
\* successful mutation and saved, and B has afterwards made a successful
\* mutation and saved, the file holds exactly B's catalog; the item A changed
\* is in the file as A left it only when B's catalog holds it so.
C16_LastSaveWins ==
    \A k \in 1..Len(writers) :
        SavedThenOverwritten(k) =>
            /\ FileHolds(file, other.items)
            /\ Held(file, writers[k].now) <=>
                  \E i \in 1..Len(other.items) : other.items[i] = writers[k].now

\* A lost update: A's catalog holds the item as A's saved mutation left it,
\* B has saved afterwards, and the file does not hold the item so.
C16_Witness ==
    \E k \in 1..Len(writers) :
        /\ SavedThenOverwritten(k)
        /\ \E i \in 1..Len(items) : items[i] = writers[k].now
        /\ ~Held(file, writers[k].now)
        /\ FileHolds(file, other.items)

-----------------------------------------------------------------------------
(* Seeding a store that is not empty *)

\* C17: after populate_with_initial_data, called in whatever state the store
\* is, also one that holds one of the seeded ids, no two items of the catalog
\* share an itemId.
C17_SeedKeepsIdsUnique ==
    last.op = "populate" =>
        \A i, j \in 1..Len(items) : i # j => ~PyEq(items[i].itemId, items[j].itemId)

-----------------------------------------------------------------------------
(* Runs of main *)

\* C18: seeding is one-time.  main calls populate_with_initial_data only as
\* the first call after the load, on an empty catalog, and on a data file
\* that no run has seeded; and once a run has seeded and saved, the load of
\* every later run ends with a catalog that is not empty.
C18_SeedsOnce ==
    [][/\ last'.op = "populate" =>
            /\ ~seeded
            /\ last.op = "construct"
            /\ items = <<>>
       /\ seeded /\ last'.op = "construct" =>
            /\ phase' # "raised"
            /\ items' # <<>>]_vars

\* A run after the one that seeded has loaded the seeded catalog with an item
\* added through the menu, and has left it at that.
C18_Witness ==
    /\ seeded
    /\ last.op = "construct"
    /\ phase = "menu"
    /\ Len(items) > 11

\* C20: every borrow_item call made by the menu has the id of an item that is
\* in the catalog and available, and returns True; every return_item call
\* made by the menu has the id of an item that is in the catalog and borrowed.
C20_MenuCallsSucceed ==
    [][/\ last'.op = "borrow_item" =>
            /\ FindItemById(items, last'.id) # <<>>
            /\ Truthy(FindItemById(items, last'.id)[1].available)
            /\ last'.ret = "True"
       /\ last'.op = "return_item" =>
            /\ FindItemById(items, last'.id) # <<>>
            /\ ~Truthy(FindItemById(items, last'.id)[1].available)]_vars

\* The menu has returned the item that the menu step before it borrowed.
C20_Witness ==
    /\ phase = "menu"
    /\ last.op = "return_item"
    /\ last.saved
    /\ prev = last.id

-----------------------------------------------------------------------------
(* The two listings *)

\* The item is in the list.
Listed(list, item) == \E j \in 1..Len(list) : list[j] = item

\* The position of the item in the catalog.
PositionIn(its, item) == CHOOSE i \in 1..Len(its) : its[i] = item

\* The list holds items of the catalog, in catalog order.
InCatalogOrder(list, its) ==
    /\ \A j \in 1..Len(list) : Listed(its, list[j])
    /\ \A j, k \in 1..Len(list) :
          j < k => PositionIn(its, list[j]) < PositionIn(its, list[k])

\* C19: in every reachable state get_available_items and get_borrowed_items
\* partition the catalog: every item is in exactly one of the two lists, the
\* available list holds exactly the items whose available equals true, the
\* borrowed list exactly those whose available equals false, and each list
\* is in catalog order; a call returns the list.
C19_ListsPartition ==
    LET availables == GetAvailableItems(items)
        borrowed == GetBorrowedItems(items)
    IN  /\ Len(availables) + Len(borrowed) = Len(items)
        /\ \A i \in 1..Len(items) :
              /\ Listed(availables, items[i]) # Listed(borrowed, items[i])
              /\ Listed(availables, items[i]) <=> PyEq(items[i].available, PyTrue)
              /\ Listed(borrowed, items[i]) <=> PyEq(items[i].available, PyFalse)
        /\ InCatalogOrder(availables, items)
        /\ InCatalogOrder(borrowed, items)
        /\ last.op = "get_available_items" => result = availables
        /\ last.op = "get_borrowed_items" => result = borrowed

\* get_borrowed_items has returned several items of a catalog that has
\* several available items as well.
C19_Witness ==
    /\ last.op = "get_borrowed_items"
    /\ Len(result) > 1
    /\ Len(GetAvailableItems(items)) > 1

-----------------------------------------------------------------------------
(* Records the load skipped *)

\* The indices of the records of the file that a load does not take into
\* memory.
SkippedAt(f) ==
    IF f.state = "array"
    THEN LET kept == Kept(f.records, 1, {}, <<>>, TRUE).kept
         IN  (1..Len(f.records)) \ {kept[n] : n \in 1..Len(kept)}
    ELSE {}

\* C21: on a data file whose load skipped records or found a malformed
\* document, a step that does not save leaves the file as it was found; the
\* first add_item, borrow_item, return_item or seeding that saves leaves a
\* file that holds the in-memory items only: one record per item, a skipped
\* record only where it is the copy of a loaded one, and a load of it gives
\* the in-memory catalog and nothing else.
C21_SkippedAreLost ==
    [][origin = "foreign" =>
          IF last'.saved
          THEN /\ FileHolds(file', items')
               /\ LoadData(file') = [items |-> items', raised |-> ""]
               /\ \A i \in SkippedAt(file) :
                     (\E j \in 1..Len(file'.records) : file'.records[j] = file.records[i])
                        => \E k \in (1..Len(file.records)) \ SkippedAt(file) :
                              file.records[k] = file.records[i]
          ELSE file' = file]_vars

\* On a data file of which the load skipped a record or found a malformed
\* document, borrow_item has borrowed the only item of the catalog, and the
\* file holds this one item.
C21_Witness ==
    /\ last.op = "borrow_item"
    /\ last.ret = "True"
    /\ Len(items) = 1
    /\ FileHolds(file, items)

====
